---------------------------- MODULE Spec2Model ----------------------------
(***************************************************************************)
(* The relational store of the EV battery database (db.js): four tables    *)
(* kept in localStorage, auto-increment identifiers, foreign-key           *)
(* validation on write and referential-integrity guards on delete.         *)
(***************************************************************************)
EXTENDS Integers, Sequences, FiniteSets, TLC

(***************************************************************************)
(* JavaScript values.  A value is a record (t, n, s): its type tag, its    *)
(* integer part and its text.  A decimal literal such as 3.63 is the       *)
(* number with n = 3 and the fractional digits "63" in s, so that strict   *)
(* equality (===) is equality of these records.                            *)
(***************************************************************************)
Undefined == [t |-> "undefined", n |-> 0, s |-> ""]

Null == [t |-> "null", n |-> 0, s |-> ""]

True == [t |-> "boolean", n |-> 1, s |-> ""]

Num(k) == [t |-> "number", n |-> k, s |-> ""]

Dec(w, f) == [t |-> "number", n |-> w, s |-> f]

Str(x) == [t |-> "string", n |-> 0, s |-> x]

\* ToBoolean(v) is false: undefined, null, 0 and the empty string
Falsy(v) ==
  \/ v.t \in {"undefined", "null"}
  \/ v.t = "number" /\ v.n = 0 /\ v.s = ""
  \/ v.t = "string" /\ v.s = ""

\* a || b
Or(a, b) == IF Falsy(a) THEN b ELSE a

\* o.f : the value of a property, undefined when the object has no such key
Prop(o, f) == IF f \in DOMAIN o THEN o[f] ELSE Undefined

\* the object literal {} 
EmptyObject == [k \in {} |-> Undefined]

\* { ...base, k1: v1, ... } : the listed properties supersede those of base
Spread(base, props) == props @@ base

(***************************************************************************)
(* The persistence medium.  A medium maps each key it holds to the text    *)
(* stored under it.  JSON.stringify drops every property whose value is    *)
(* undefined; the text of a table is represented by the sequence of        *)
(* objects that JSON.parse reads back from it.                             *)
(***************************************************************************)
TABLES ==
  [cellModels |-> "cellModels", batteryPacks |-> "batteryPacks",
   cars |-> "cars", carBatteryPacks |-> "carBatteryPacks"]

TableNames == {TABLES[k] : k \in DOMAIN TABLES}

JSONstringifyObject(o) == [k \in {f \in DOMAIN o : o[f] # Undefined} |-> o[k]]

JSONstringify(data) == [i \in 1..Len(data) |-> JSONstringifyObject(data[i])]

JSONparse(text) == text

\* localStorage.getItem(key) is null exactly when the key is absent
hasItem(ls, key) == key \in DOMAIN ls

removeItem(ls, key) == [k \in (DOMAIN ls) \ {key} |-> ls[k]]

getTable(ls, tableName) ==
  IF hasItem(ls, tableName) THEN JSONparse(ls[tableName]) ELSE << >>

saveTable(ls, tableName, data) == (tableName :> JSONstringify(data)) @@ ls

\* Math.max(...values)
MathMax(values) == CHOOSE m \in values : \A x \in values : x <= m

\* getNextId as it would be if it returned the largest id itself
getNextId_noIncrement(ls, tableName) ==
  LET items == getTable(ls, tableName)
  IN IF Len(items) = 0 THEN 1
     ELSE MathMax({Prop(items[i], "id").n : i \in 1..Len(items)})

\* getNextId as it would be if it counted the records instead of taking the largest id
getNextId_count(ls, tableName) == Len(getTable(ls, tableName)) + 1

getNextId(ls, tableName) ==
  LET items == getTable(ls, tableName)
  IN IF Len(items) = 0 THEN 1
     ELSE MathMax({Prop(items[i], "id").n : i \in 1..Len(items)}) + 1

\* validateFK as it would be if the lookup in the referenced table were left out
validateFK_noLookup(ls, fkValue, referencedTable) == TRUE

\* validateFK as it would be without the early return for null and undefined
validateFK_noNullCase(ls, fkValue, referencedTable) ==
  LET table == getTable(ls, referencedTable)
  IN \E i \in 1..Len(table) : Prop(table[i], "id") = fkValue

validateFK(ls, fkValue, referencedTable) ==
  IF fkValue = Null \/ fkValue = Undefined THEN TRUE
  ELSE LET table == getTable(ls, referencedTable)
       IN \E i \in 1..Len(table) : Prop(table[i], "id") = fkValue

\* items.findIndex(item => item.id === id), counted from 1; 0 when no item matches
findIndex(items, id) ==
  LET hits == {i \in 1..Len(items) : Prop(items[i], "id") = id}
  IN IF hits = {} THEN 0 ELSE CHOOSE i \in hits : \A j \in hits : i <= j

\* items.find(item => item.id === id): the item in a one-element sequence, << >> when absent
find(items, id) ==
  LET index == findIndex(items, id)
  IN IF index = 0 THEN << >> ELSE << items[index] >>

\* the filter as it would be if it dropped the first record whatever its id
filterOut_first(items, id) == IF items = << >> THEN items ELSE Tail(items)

\* items.filter(item => item.id !== id)
filterOut(items, id) == SelectSeq(items, LAMBDA item : Prop(item, "id") # id)

\* the outcome of a call: the medium it leaves, "ok" or the message of the
\* Error it throws, and the value it returns
Return(ls, value) == [store |-> ls, outcome |-> "ok", ret |-> << value >>]

Throw(ls, message) == [store |-> ls, outcome |-> message, ret |-> << >>]

\* the merge as it would be if update took data.f || item.f
Supplied_orOld(data, item, f) == Or(Prop(data, f), Prop(item, f))

\* data.f !== undefined ? data.f : item.f
Supplied(data, item, f) ==
  IF Prop(data, f) # Undefined THEN Prop(data, f) ELSE Prop(item, f)

(***************************************************************************)
(* cellModels                                                              *)
(***************************************************************************)
cellModels_list(ls) == getTable(ls, TABLES.cellModels)

cellModels_get(ls, id) == find(cellModels_list(ls), id)

\* cellModels.create as it would be if it refused a second (manufacturer, model)
cellModels_create_unique(ls, data) ==
  LET items == cellModels_list(ls)
      newItem ==
        [id |-> Num(getNextId(ls, TABLES.cellModels)),
         manufacturer |-> Or(Prop(data, "manufacturer"), Str("")),
         model |-> Or(Prop(data, "model"), Str("")),
         chemistry |-> Or(Prop(data, "chemistry"), Str("")),
         nominalVoltage |-> Or(Prop(data, "nominalVoltage"), Null),
         nominalCapacityMah |-> Or(Prop(data, "nominalCapacityMah"), Null)]
  IN IF \E i \in 1..Len(items) :
          /\ Prop(items[i], "manufacturer") = newItem.manufacturer
          /\ Prop(items[i], "model") = newItem.model
     THEN Throw(ls, "Cell model already exists")
     ELSE Return(saveTable(ls, TABLES.cellModels, Append(items, newItem)), newItem)

cellModels_create(ls, data) ==
  LET items == cellModels_list(ls)
      newItem ==
        [id |-> Num(getNextId(ls, TABLES.cellModels)),
         manufacturer |-> Or(Prop(data, "manufacturer"), Str("")),
         model |-> Or(Prop(data, "model"), Str("")),
         chemistry |-> Or(Prop(data, "chemistry"), Str("")),
         nominalVoltage |-> Or(Prop(data, "nominalVoltage"), Null),
         nominalCapacityMah |-> Or(Prop(data, "nominalCapacityMah"), Null)]
  IN Return(saveTable(ls, TABLES.cellModels, Append(items, newItem)), newItem)

cellModels_update(ls, id, data) ==
  LET items == cellModels_list(ls)
      index == findIndex(items, id)
  IN IF index = 0 THEN Throw(ls, "Cell model not found")
     ELSE LET item ==
                Spread(items[index],
                  [manufacturer |-> Supplied(data, items[index], "manufacturer"),
                   model |-> Supplied(data, items[index], "model"),
                   chemistry |-> Supplied(data, items[index], "chemistry"),
                   nominalVoltage |-> Supplied(data, items[index], "nominalVoltage"),
                   nominalCapacityMah |-> Supplied(data, items[index], "nominalCapacityMah")])
          IN Return(saveTable(ls, TABLES.cellModels, [items EXCEPT ![index] = item]), item)

\* cellModels.remove as it would be without the guard on battery packs
cellModels_remove_noGuard(ls, id) ==
  LET items == cellModels_list(ls)
      filtered == filterOut(items, id)
  IN IF Len(filtered) = Len(items) THEN Throw(ls, "Cell model not found")
     ELSE Return(saveTable(ls, TABLES.cellModels, filtered), True)

cellModels_remove(ls, id) ==
  LET packs == getTable(ls, TABLES.batteryPacks)
  IN IF \E i \in 1..Len(packs) : Prop(packs[i], "cellModelId") = id
     THEN Throw(ls, "Cannot delete cell model: it is referenced by battery packs")
     ELSE LET items == cellModels_list(ls)
              filtered == filterOut(items, id)
          IN IF Len(filtered) = Len(items) THEN Throw(ls, "Cell model not found")
             ELSE Return(saveTable(ls, TABLES.cellModels, filtered), True)

(***************************************************************************)
(* batteryPacks                                                            *)
(***************************************************************************)
batteryPacks_list(ls) == getTable(ls, TABLES.batteryPacks)

batteryPacks_get(ls, id) == find(batteryPacks_list(ls), id)

batteryPacks_create(ls, data) ==
  IF ~validateFK(ls, Prop(data, "cellModelId"), TABLES.cellModels)
  THEN Throw(ls, "Invalid cellModelId: cell model does not exist")
  ELSE LET items == batteryPacks_list(ls)
           newItem ==
             [id |-> Num(getNextId(ls, TABLES.batteryPacks)),
              name |-> Or(Prop(data, "name"), Str("")),
              totalCapacityKwh |-> Or(Prop(data, "totalCapacityKwh"), Null),
              seriesCount |-> Or(Prop(data, "seriesCount"), Null),
              parallelCount |-> Or(Prop(data, "parallelCount"), Null),
              cellCount |-> Or(Prop(data, "cellCount"), Null),
              cellModelId |-> Or(Prop(data, "cellModelId"), Null)]
       IN Return(saveTable(ls, TABLES.batteryPacks, Append(items, newItem)), newItem)

batteryPacks_update(ls, id, data) ==
  IF Prop(data, "cellModelId") # Undefined
     /\ ~validateFK(ls, Prop(data, "cellModelId"), TABLES.cellModels)
  THEN Throw(ls, "Invalid cellModelId: cell model does not exist")
  ELSE LET items == batteryPacks_list(ls)
           index == findIndex(items, id)
       IN IF index = 0 THEN Throw(ls, "Battery pack not found")
          ELSE LET item ==
                     Spread(items[index],
                       [name |-> Supplied(data, items[index], "name"),
                        totalCapacityKwh |-> Supplied(data, items[index], "totalCapacityKwh"),
                        seriesCount |-> Supplied(data, items[index], "seriesCount"),
                        parallelCount |-> Supplied(data, items[index], "parallelCount"),
                        cellCount |-> Supplied(data, items[index], "cellCount"),
                        cellModelId |-> Supplied(data, items[index], "cellModelId")])
               IN Return(saveTable(ls, TABLES.batteryPacks, [items EXCEPT ![index] = item]), item)

\* batteryPacks.remove as it would be if the filtered table were not saved
batteryPacks_remove_noSave(ls, id) ==
  LET rels == getTable(ls, TABLES.carBatteryPacks)
  IN IF \E i \in 1..Len(rels) : Prop(rels[i], "batteryPackId") = id
     THEN Throw(ls, "Cannot delete battery pack: it is referenced by car-battery relations")
     ELSE LET items == batteryPacks_list(ls)
              filtered == filterOut(items, id)
          IN IF Len(filtered) = Len(items) THEN Throw(ls, "Battery pack not found")
             ELSE Return(ls, True)

batteryPacks_remove(ls, id) ==
  LET rels == getTable(ls, TABLES.carBatteryPacks)
  IN IF \E i \in 1..Len(rels) : Prop(rels[i], "batteryPackId") = id
     THEN Throw(ls, "Cannot delete battery pack: it is referenced by car-battery relations")
     ELSE LET items == batteryPacks_list(ls)
              filtered == filterOut(items, id)
          IN IF Len(filtered) = Len(items) THEN Throw(ls, "Battery pack not found")
             ELSE Return(saveTable(ls, TABLES.batteryPacks, filtered), True)

(***************************************************************************)
(* cars                                                                    *)
(***************************************************************************)
cars_list(ls) == getTable(ls, TABLES.cars)

cars_get(ls, id) == find(cars_list(ls), id)

\* cars.create as it would be if the default of trim were the empty string
cars_create_emptyTrim(ls, data) ==
  LET items == cars_list(ls)
      newItem ==
        [id |-> Num(getNextId(ls, TABLES.cars)),
         brand |-> Or(Prop(data, "brand"), Str("")),
         model |-> Or(Prop(data, "model"), Str("")),
         trim |-> Or(Prop(data, "trim"), Str("")),
         yearStart |-> Or(Prop(data, "yearStart"), Null),
         yearEnd |-> Or(Prop(data, "yearEnd"), Null)]
  IN Return(saveTable(ls, TABLES.cars, Append(items, newItem)), newItem)

\* cars.create as it would be if it put the new record first (unshift for push)
cars_create_unshift(ls, data) ==
  LET items == cars_list(ls)
      newItem ==
        [id |-> Num(getNextId(ls, TABLES.cars)),
         brand |-> Or(Prop(data, "brand"), Str("")),
         model |-> Or(Prop(data, "model"), Str("")),
         trim |-> Or(Prop(data, "trim"), Null),
         yearStart |-> Or(Prop(data, "yearStart"), Null),
         yearEnd |-> Or(Prop(data, "yearEnd"), Null)]
  IN Return(saveTable(ls, TABLES.cars, << newItem >> \o items), newItem)

cars_create(ls, data) ==
  LET items == cars_list(ls)
      newItem ==
        [id |-> Num(getNextId(ls, TABLES.cars)),
         brand |-> Or(Prop(data, "brand"), Str("")),
         model |-> Or(Prop(data, "model"), Str("")),
         trim |-> Or(Prop(data, "trim"), Null),
         yearStart |-> Or(Prop(data, "yearStart"), Null),
         yearEnd |-> Or(Prop(data, "yearEnd"), Null)]
  IN Return(saveTable(ls, TABLES.cars, Append(items, newItem)), newItem)

\* cars.update as it would be if it saved the cars under the key of the relations
cars_update_wrongTable(ls, id, data) ==
  LET items == cars_list(ls)
      index == findIndex(items, id)
  IN IF index = 0 THEN Throw(ls, "Car not found")
     ELSE LET item ==
                Spread(items[index],
                  [brand |-> Supplied(data, items[index], "brand"),
                   model |-> Supplied(data, items[index], "model"),
                   trim |-> Supplied(data, items[index], "trim"),
                   yearStart |-> Supplied(data, items[index], "yearStart"),
                   yearEnd |-> Supplied(data, items[index], "yearEnd")])
          IN Return(saveTable(ls, TABLES.carBatteryPacks, [items EXCEPT ![index] = item]), item)

cars_update(ls, id, data) ==
  LET items == cars_list(ls)
      index == findIndex(items, id)
  IN IF index = 0 THEN Throw(ls, "Car not found")
     ELSE LET item ==
                Spread(items[index],
                  [brand |-> Supplied(data, items[index], "brand"),
                   model |-> Supplied(data, items[index], "model"),
                   trim |-> Supplied(data, items[index], "trim"),
                   yearStart |-> Supplied(data, items[index], "yearStart"),
                   yearEnd |-> Supplied(data, items[index], "yearEnd")])
          IN Return(saveTable(ls, TABLES.cars, [items EXCEPT ![index] = item]), item)

\* cars.remove as it would be if its guard compared the other column of the relation
cars_remove_wrongColumn(ls, id) ==
  LET rels == getTable(ls, TABLES.carBatteryPacks)
  IN IF \E i \in 1..Len(rels) : Prop(rels[i], "batteryPackId") = id
     THEN Throw(ls, "Cannot delete car: it is referenced by car-battery relations")
     ELSE LET items == cars_list(ls)
              filtered == filterOut(items, id)
          IN IF Len(filtered) = Len(items) THEN Throw(ls, "Car not found")
             ELSE Return(saveTable(ls, TABLES.cars, filtered), True)

cars_remove(ls, id) ==
  LET rels == getTable(ls, TABLES.carBatteryPacks)
  IN IF \E i \in 1..Len(rels) : Prop(rels[i], "carId") = id
     THEN Throw(ls, "Cannot delete car: it is referenced by car-battery relations")
     ELSE LET items == cars_list(ls)
              filtered == filterOut(items, id)
          IN IF Len(filtered) = Len(items) THEN Throw(ls, "Car not found")
             ELSE Return(saveTable(ls, TABLES.cars, filtered), True)

(***************************************************************************)
(* carBatteryPacks                                                         *)
(***************************************************************************)
carBatteryPacks_list(ls) == getTable(ls, TABLES.carBatteryPacks)

carBatteryPacks_get(ls, id) == find(carBatteryPacks_list(ls), id)

\* carBatteryPacks.create as it would be if it saved the record before validating it
carBatteryPacks_create_saveFirst(ls, data) ==
  LET items == carBatteryPacks_list(ls)
      newItem ==
        [id |-> Num(getNextId(ls, TABLES.carBatteryPacks)),
         carId |-> Prop(data, "carId"),
         batteryPackId |-> Prop(data, "batteryPackId")]
      saved == saveTable(ls, TABLES.carBatteryPacks, Append(items, newItem))
  IN IF ~validateFK(ls, Prop(data, "carId"), TABLES.cars)
     THEN Throw(saved, "Invalid carId: car does not exist")
     ELSE IF ~validateFK(ls, Prop(data, "batteryPackId"), TABLES.batteryPacks)
     THEN Throw(saved, "Invalid batteryPackId: battery pack does not exist")
     ELSE Return(saved, newItem)

carBatteryPacks_create(ls, data) ==
  IF ~validateFK(ls, Prop(data, "carId"), TABLES.cars)
  THEN Throw(ls, "Invalid carId: car does not exist")
  ELSE IF ~validateFK(ls, Prop(data, "batteryPackId"), TABLES.batteryPacks)
  THEN Throw(ls, "Invalid batteryPackId: battery pack does not exist")
  ELSE LET items == carBatteryPacks_list(ls)
           newItem ==
             [id |-> Num(getNextId(ls, TABLES.carBatteryPacks)),
              carId |-> Prop(data, "carId"),
              batteryPackId |-> Prop(data, "batteryPackId")]
       IN Return(saveTable(ls, TABLES.carBatteryPacks, Append(items, newItem)), newItem)

\* carBatteryPacks.update as it would be if it did not validate the supplied keys
carBatteryPacks_update_noValidation(ls, id, data) ==
  LET items == carBatteryPacks_list(ls)
      index == findIndex(items, id)
  IN IF index = 0 THEN Throw(ls, "Relation not found")
     ELSE LET item ==
                Spread(items[index],
                  [carId |-> Supplied(data, items[index], "carId"),
                   batteryPackId |-> Supplied(data, items[index], "batteryPackId")])
          IN Return(saveTable(ls, TABLES.carBatteryPacks, [items EXCEPT ![index] = item]), item)

carBatteryPacks_update(ls, id, data) ==
  IF Prop(data, "carId") # Undefined /\ ~validateFK(ls, Prop(data, "carId"), TABLES.cars)
  THEN Throw(ls, "Invalid carId: car does not exist")
  ELSE IF Prop(data, "batteryPackId") # Undefined
          /\ ~validateFK(ls, Prop(data, "batteryPackId"), TABLES.batteryPacks)
  THEN Throw(ls, "Invalid batteryPackId: battery pack does not exist")
  ELSE LET items == carBatteryPacks_list(ls)
           index == findIndex(items, id)
       IN IF index = 0 THEN Throw(ls, "Relation not found")
          ELSE LET item ==
                     Spread(items[index],
                       [carId |-> Supplied(data, items[index], "carId"),
                        batteryPackId |-> Supplied(data, items[index], "batteryPackId")])
               IN Return(saveTable(ls, TABLES.carBatteryPacks, [items EXCEPT ![index] = item]), item)

carBatteryPacks_remove(ls, id) ==
  LET items == carBatteryPacks_list(ls)
      filtered == filterOut(items, id)
  IN IF Len(filtered) = Len(items) THEN Throw(ls, "Relation not found")
     ELSE Return(saveTable(ls, TABLES.carBatteryPacks, filtered), True)

(***************************************************************************)
(* Dispatch of the four CRUD surfaces by table name                        *)
(***************************************************************************)
list(ls, tableName) ==
  CASE tableName = TABLES.cellModels -> cellModels_list(ls)
    [] tableName = TABLES.batteryPacks -> batteryPacks_list(ls)
    [] tableName = TABLES.cars -> cars_list(ls)
    [] tableName = TABLES.carBatteryPacks -> carBatteryPacks_list(ls)

get(ls, tableName, id) ==
  CASE tableName = TABLES.cellModels -> cellModels_get(ls, id)
    [] tableName = TABLES.batteryPacks -> batteryPacks_get(ls, id)
    [] tableName = TABLES.cars -> cars_get(ls, id)
    [] tableName = TABLES.carBatteryPacks -> carBatteryPacks_get(ls, id)

create(ls, tableName, data) ==
  CASE tableName = TABLES.cellModels -> cellModels_create(ls, data)
    [] tableName = TABLES.batteryPacks -> batteryPacks_create(ls, data)
    [] tableName = TABLES.cars -> cars_create(ls, data)
    [] tableName = TABLES.carBatteryPacks -> carBatteryPacks_create(ls, data)

update(ls, tableName, id, data) ==
  CASE tableName = TABLES.cellModels -> cellModels_update(ls, id, data)
    [] tableName = TABLES.batteryPacks -> batteryPacks_update(ls, id, data)
    [] tableName = TABLES.cars -> cars_update(ls, id, data)
    [] tableName = TABLES.carBatteryPacks -> carBatteryPacks_update(ls, id, data)

remove(ls, tableName, id) ==
  CASE tableName = TABLES.cellModels -> cellModels_remove(ls, id)
    [] tableName = TABLES.batteryPacks -> batteryPacks_remove(ls, id)
    [] tableName = TABLES.cars -> cars_remove(ls, id)
    [] tableName = TABLES.carBatteryPacks -> carBatteryPacks_remove(ls, id)

\* a list() call as it would be if it took the first record off the stored table
listCall_shift(ls, tableName) ==
  LET items == list(ls, tableName)
  IN IF items = << >> THEN Return(ls, items)
     ELSE Return(saveTable(ls, tableName, Tail(items)), items)

\* a call of <table>.list(): the medium it leaves and the sequence it returns
listCall(ls, tableName) == Return(ls, list(ls, tableName))

\* a call of <table>.get(id): the record, or undefined when find returns none
getCall(ls, tableName, id) ==
  LET found == get(ls, tableName, id)
  IN Return(ls, IF found = << >> THEN Undefined ELSE found[1])

\* export() as it would be if batteryPacks were filled from cellModels.list()
export_copyPaste(ls) ==
  Return(ls, [cellModels |-> cellModels_list(ls), batteryPacks |-> cellModels_list(ls),
              cars |-> cars_list(ls), carBatteryPacks |-> carBatteryPacks_list(ls)])

export(ls) ==
  Return(ls, [cellModels |-> cellModels_list(ls), batteryPacks |-> batteryPacks_list(ls),
              cars |-> cars_list(ls), carBatteryPacks |-> carBatteryPacks_list(ls)])

(***************************************************************************)
(* Seeding                                                                 *)
(***************************************************************************)
cellModelsData ==
  << [manufacturer |-> Str("Shenzhen Starax Energy Technology"), model |-> Str("S28(B28)"), chemistry |-> Str("Li-ION"), nominalVoltage |-> Dec(3, "63"), nominalCapacityMah |-> Num(55000)],
     [manufacturer |-> Str("LG"), model |-> Str("E63"), chemistry |-> Str("Li-iON"), nominalVoltage |-> Dec(3, "6"), nominalCapacityMah |-> Num(64800)],
     [manufacturer |-> Str("Panasonic"), model |-> Str("NCR18650B"), chemistry |-> Str("Li-ION"), nominalVoltage |-> Dec(3, "6"), nominalCapacityMah |-> Num(3350)],
     [manufacturer |-> Str("LG"), model |-> Str("INR21700-M50"), chemistry |-> Str("Li-ION"), nominalVoltage |-> Dec(3, "63"), nominalCapacityMah |-> Null],
     [manufacturer |-> Str("Panasonic"), model |-> Str("NCR21700"), chemistry |-> Str("Li-ION"), nominalVoltage |-> Dec(3, "6"), nominalCapacityMah |-> Num(5000)],
     [manufacturer |-> Str("Panasonic"), model |-> Str("Prismatic PHEV2 - 22Ah"), chemistry |-> Str("Li-ION"), nominalVoltage |-> Dec(3, "6"), nominalCapacityMah |-> Num(22000)],
     [manufacturer |-> Str("Panasonic"), model |-> Str("Prismatic PHEV2 - 25Ah"), chemistry |-> Str("Li-ION"), nominalVoltage |-> Dec(3, "6"), nominalCapacityMah |-> Num(25000)],
     [manufacturer |-> Str("Panasonic"), model |-> Str("Prismatic PHEV2 - 51Ah"), chemistry |-> Str("Li-ION"), nominalVoltage |-> Dec(3, "7"), nominalCapacityMah |-> Num(51000)],
     [manufacturer |-> Str("Ennocar"), model |-> Str("EC-H-Series-INS-G2-100.8"), chemistry |-> Str("Ni-MH"), nominalVoltage |-> Dec(14, "4"), nominalCapacityMah |-> Num(6500)],
     [manufacturer |-> Str("Ennocar"), model |-> Str("EC-T-SERIES-SP-AQUA-7.2V"), chemistry |-> Str("Ni-MH"), nominalVoltage |-> Dec(7, "2"), nominalCapacityMah |-> Num(6500)],
     [manufacturer |-> Str("AESC"), model |-> Str("32,5Ah Pouch"), chemistry |-> Str("Li-ION"), nominalVoltage |-> Dec(3, "8"), nominalCapacityMah |-> Num(65000)],
     [manufacturer |-> Str("AESC"), model |-> Str("43Ah Pouch"), chemistry |-> Str("Li-ION"), nominalVoltage |-> Dec(3, "7"), nominalCapacityMah |-> Num(86000)],
     [manufacturer |-> Str("GS Yuasa"), model |-> Str("LEV40"), chemistry |-> Str("Li-ION"), nominalVoltage |-> Dec(3, "75"), nominalCapacityMah |-> Num(40000)],
     [manufacturer |-> Str("GS Yuasa"), model |-> Str("LEV40N"), chemistry |-> Str("Li-ION"), nominalVoltage |-> Dec(3, "75"), nominalCapacityMah |-> Num(40000)],
     [manufacturer |-> Str("GS Yuasa"), model |-> Str("LEV50"), chemistry |-> Str("Li-ION"), nominalVoltage |-> Dec(3, "75"), nominalCapacityMah |-> Num(50000)],
     [manufacturer |-> Str("GS Yuasa"), model |-> Str("LEV50N"), chemistry |-> Str("Li-ION"), nominalVoltage |-> Dec(3, "75"), nominalCapacityMah |-> Num(40000)],
     [manufacturer |-> Str("Samsung SDI"), model |-> Str("Prismatic 60Ah"), chemistry |-> Str("Li-ION"), nominalVoltage |-> Dec(3, "68"), nominalCapacityMah |-> Num(60000)],
     [manufacturer |-> Str("Samsung SDI"), model |-> Str("Prismatic 94Ah"), chemistry |-> Str("Li-ION"), nominalVoltage |-> Dec(3, "68"), nominalCapacityMah |-> Num(94000)],
     [manufacturer |-> Str("Samsung SDI"), model |-> Str("Prismatic 120Ah"), chemistry |-> Str("Li-ION"), nominalVoltage |-> Dec(3, "68"), nominalCapacityMah |-> Num(120000)],
     [manufacturer |-> Str("Toyota"), model |-> Str("NP2.0"), chemistry |-> Str("Ni-MH"), nominalVoltage |-> Dec(7, "2"), nominalCapacityMah |-> Num(6500)],
     [manufacturer |-> Str("Panasonic"), model |-> Str("NCR2170A"), chemistry |-> Str("Li-ION"), nominalVoltage |-> Dec(3, "6"), nominalCapacityMah |-> Num(4800)],
     [manufacturer |-> Str("Panasonic"), model |-> Str("NCR18650GA"), chemistry |-> Str("Li-ION"), nominalVoltage |-> Dec(3, "6"), nominalCapacityMah |-> Num(3500)] >>

carsData ==
  << [brand |-> Str("BMW"), model |-> Str("i3"), trim |-> Null, yearStart |-> Num(2013), yearEnd |-> Num(2016)],
     [brand |-> Str("BMW"), model |-> Str("i3"), trim |-> Null, yearStart |-> Num(2016), yearEnd |-> Num(2018)],
     [brand |-> Str("BMW"), model |-> Str("i3s"), trim |-> Null, yearStart |-> Num(2017), yearEnd |-> Num(2018)],
     [brand |-> Str("Citroen"), model |-> Str("C-zero"), trim |-> Null, yearStart |-> Num(2010), yearEnd |-> Num(2013)],
     [brand |-> Str("Citroen"), model |-> Str("C-zero"), trim |-> Null, yearStart |-> Num(2013), yearEnd |-> Num(2016)],
     [brand |-> Str("Citroen"), model |-> Str("C-zero"), trim |-> Null, yearStart |-> Num(2016), yearEnd |-> Num(2020)],
     [brand |-> Str("Hyundai"), model |-> Str("Kona"), trim |-> Str("64kWh"), yearStart |-> Num(2017), yearEnd |-> Num(2023)],
     [brand |-> Str("Hyundai"), model |-> Str("Kona"), trim |-> Str("39.2kWh"), yearStart |-> Num(2017), yearEnd |-> Num(2023)],
     [brand |-> Str("Mitsubishi"), model |-> Str("i-MiEV"), trim |-> Null, yearStart |-> Num(2010), yearEnd |-> Num(2013)],
     [brand |-> Str("Mitsubishi"), model |-> Str("i-MiEV"), trim |-> Null, yearStart |-> Num(2013), yearEnd |-> Num(2016)],
     [brand |-> Str("Mitsubishi"), model |-> Str("i-MiEV"), trim |-> Null, yearStart |-> Num(2016), yearEnd |-> Num(2020)],
     [brand |-> Str("Mitsubishi"), model |-> Str("Outlander PHEV"), trim |-> Null, yearStart |-> Num(2013), yearEnd |-> Num(2018)],
     [brand |-> Str("Mitsubishi"), model |-> Str("Outlander PHEV"), trim |-> Null, yearStart |-> Num(2018), yearEnd |-> Num(2021)],
     [brand |-> Str("Mitsubishi"), model |-> Str("Outlander PHEV"), trim |-> Null, yearStart |-> Num(2021), yearEnd |-> Num(2024)],
     [brand |-> Str("Nissan"), model |-> Str("Leaf"), trim |-> Str("24kWh"), yearStart |-> Num(2010), yearEnd |-> Num(2016)],
     [brand |-> Str("Nissan"), model |-> Str("Leaf"), trim |-> Str("30kWh"), yearStart |-> Num(2016), yearEnd |-> Num(2017)],
     [brand |-> Str("Peugeot"), model |-> Str("iOn"), trim |-> Null, yearStart |-> Num(2010), yearEnd |-> Num(2013)],
     [brand |-> Str("Peugeot"), model |-> Str("iOn"), trim |-> Null, yearStart |-> Num(2013), yearEnd |-> Num(2016)],
     [brand |-> Str("Peugeot"), model |-> Str("iOn"), trim |-> Null, yearStart |-> Num(2016), yearEnd |-> Num(2020)],
     [brand |-> Str("Tesla"), model |-> Str("Model 3"), trim |-> Str("Long Range Performance"), yearStart |-> Num(2019), yearEnd |-> Num(2020)],
     [brand |-> Str("Tesla"), model |-> Str("Model 3"), trim |-> Str("Standard Range Plus"), yearStart |-> Num(2019), yearEnd |-> Num(2020)],
     [brand |-> Str("Tesla"), model |-> Str("Model S"), trim |-> Str("P85"), yearStart |-> Num(2012), yearEnd |-> Num(2014)],
     [brand |-> Str("Tesla"), model |-> Str("Model S"), trim |-> Str("P100D"), yearStart |-> Num(2016), yearEnd |-> Num(2019)],
     [brand |-> Str("Tesla"), model |-> Str("Model X"), trim |-> Str("P100D"), yearStart |-> Num(2017), yearEnd |-> Num(2019)],
     [brand |-> Str("Toyota"), model |-> Str("Prius"), trim |-> Null, yearStart |-> Num(2000), yearEnd |-> Num(2003)],
     [brand |-> Str("Toyota"), model |-> Str("Prius"), trim |-> Null, yearStart |-> Num(2003), yearEnd |-> Num(2009)],
     [brand |-> Str("Toyota"), model |-> Str("Prius PHEV"), trim |-> Null, yearStart |-> Num(2012), yearEnd |-> Num(2016)],
     [brand |-> Str("Toyota"), model |-> Str("Prius PHEV"), trim |-> Null, yearStart |-> Num(2016), yearEnd |-> Num(2022)] >>

batteryPacksData ==
  << [name |-> Str("BMW i3 21.6kWh (Samsung 60Ah)"), totalCapacityKwh |-> Dec(21, "6"), seriesCount |-> Null, parallelCount |-> Null, cellCount |-> Null, cellModelId |-> Num(17)],
     [name |-> Str("BMW i3 33.2kWh (Samsung 94Ah)"), totalCapacityKwh |-> Dec(33, "2"), seriesCount |-> Null, parallelCount |-> Null, cellCount |-> Null, cellModelId |-> Num(18)],
     [name |-> Str("Citroen C-zero 16kWh (LEV50)"), totalCapacityKwh |-> Num(16), seriesCount |-> Null, parallelCount |-> Null, cellCount |-> Null, cellModelId |-> Num(15)],
     [name |-> Str("Citroen C-zero 16kWh (LEV50N)"), totalCapacityKwh |-> Num(16), seriesCount |-> Null, parallelCount |-> Null, cellCount |-> Null, cellModelId |-> Num(16)],
     [name |-> Str("Hyundai Kona 64kWh"), totalCapacityKwh |-> Num(64), seriesCount |-> Null, parallelCount |-> Null, cellCount |-> Null, cellModelId |-> Num(1)],
     [name |-> Str("Hyundai Kona 39.2kWh"), totalCapacityKwh |-> Dec(39, "2"), seriesCount |-> Null, parallelCount |-> Null, cellCount |-> Null, cellModelId |-> Num(1)],
     [name |-> Str("Mitsubishi i-MiEV 16kWh (LEV50)"), totalCapacityKwh |-> Num(16), seriesCount |-> Null, parallelCount |-> Null, cellCount |-> Null, cellModelId |-> Num(15)],
     [name |-> Str("Mitsubishi i-MiEV 16kWh (LEV50N)"), totalCapacityKwh |-> Num(16), seriesCount |-> Null, parallelCount |-> Null, cellCount |-> Null, cellModelId |-> Num(16)],
     [name |-> Str("Mitsubishi Outlander 12kWh"), totalCapacityKwh |-> Num(12), seriesCount |-> Null, parallelCount |-> Null, cellCount |-> Null, cellModelId |-> Num(13)],
     [name |-> Str("Mitsubishi Outlander 13.8kWh"), totalCapacityKwh |-> Dec(13, "8"), seriesCount |-> Null, parallelCount |-> Null, cellCount |-> Null, cellModelId |-> Num(14)],
     [name |-> Str("Mitsubishi Outlander 20kWh"), totalCapacityKwh |-> Num(20), seriesCount |-> Null, parallelCount |-> Null, cellCount |-> Null, cellModelId |-> Num(14)],
     [name |-> Str("Nissan Leaf 24kWh"), totalCapacityKwh |-> Num(24), seriesCount |-> Null, parallelCount |-> Null, cellCount |-> Null, cellModelId |-> Num(11)],
     [name |-> Str("Nissan Leaf 30kWh"), totalCapacityKwh |-> Num(30), seriesCount |-> Null, parallelCount |-> Null, cellCount |-> Null, cellModelId |-> Num(12)],
     [name |-> Str("Tesla Model 3 LR 78.8kWh"), totalCapacityKwh |-> Dec(78, "8"), seriesCount |-> Null, parallelCount |-> Null, cellCount |-> Null, cellModelId |-> Num(21)],
     [name |-> Str("Tesla Model 3 SR 53.1kWh"), totalCapacityKwh |-> Dec(53, "1"), seriesCount |-> Null, parallelCount |-> Null, cellCount |-> Null, cellModelId |-> Num(21)],
     [name |-> Str("Tesla Model S 85kWh"), totalCapacityKwh |-> Num(85), seriesCount |-> Null, parallelCount |-> Null, cellCount |-> Null, cellModelId |-> Num(3)],
     [name |-> Str("Tesla Model S 100kWh"), totalCapacityKwh |-> Num(100), seriesCount |-> Null, parallelCount |-> Null, cellCount |-> Null, cellModelId |-> Num(22)],
     [name |-> Str("Toyota Prius 1.78kWh"), totalCapacityKwh |-> Dec(1, "78"), seriesCount |-> Null, parallelCount |-> Null, cellCount |-> Null, cellModelId |-> Num(20)],
     [name |-> Str("Toyota Prius 1.3kWh"), totalCapacityKwh |-> Dec(1, "3"), seriesCount |-> Null, parallelCount |-> Null, cellCount |-> Null, cellModelId |-> Num(20)],
     [name |-> Str("Toyota Prius PHEV 5.2kWh"), totalCapacityKwh |-> Dec(5, "2"), seriesCount |-> Null, parallelCount |-> Null, cellCount |-> Null, cellModelId |-> Num(6)],
     [name |-> Str("Toyota Prius PHEV 8.8kWh"), totalCapacityKwh |-> Dec(8, "8"), seriesCount |-> Null, parallelCount |-> Null, cellCount |-> Null, cellModelId |-> Num(6)] >>

relations ==
  << [carId |-> Num(1), batteryPackId |-> Num(1)],
     [carId |-> Num(2), batteryPackId |-> Num(2)],
     [carId |-> Num(3), batteryPackId |-> Num(2)],
     [carId |-> Num(4), batteryPackId |-> Num(3)],
     [carId |-> Num(5), batteryPackId |-> Num(4)],
     [carId |-> Num(6), batteryPackId |-> Num(4)],
     [carId |-> Num(7), batteryPackId |-> Num(5)],
     [carId |-> Num(8), batteryPackId |-> Num(6)],
     [carId |-> Num(9), batteryPackId |-> Num(7)],
     [carId |-> Num(10), batteryPackId |-> Num(8)],
     [carId |-> Num(11), batteryPackId |-> Num(8)],
     [carId |-> Num(12), batteryPackId |-> Num(9)],
     [carId |-> Num(13), batteryPackId |-> Num(10)],
     [carId |-> Num(14), batteryPackId |-> Num(11)],
     [carId |-> Num(15), batteryPackId |-> Num(12)],
     [carId |-> Num(16), batteryPackId |-> Num(13)],
     [carId |-> Num(17), batteryPackId |-> Num(3)],
     [carId |-> Num(18), batteryPackId |-> Num(4)],
     [carId |-> Num(19), batteryPackId |-> Num(4)],
     [carId |-> Num(20), batteryPackId |-> Num(14)],
     [carId |-> Num(21), batteryPackId |-> Num(15)],
     [carId |-> Num(22), batteryPackId |-> Num(16)],
     [carId |-> Num(23), batteryPackId |-> Num(17)],
     [carId |-> Num(24), batteryPackId |-> Num(17)],
     [carId |-> Num(25), batteryPackId |-> Num(18)],
     [carId |-> Num(26), batteryPackId |-> Num(19)],
     [carId |-> Num(27), batteryPackId |-> Num(20)],
     [carId |-> Num(28), batteryPackId |-> Num(21)] >>

\* one turn of data.forEach(item => table.create(item)): an Error thrown by
\* create ends the loop, so the turns after it change nothing
forEachTurn(before, tableName, item) ==
  CHOOSE r \in {IF prev.outcome # "ok" THEN prev ELSE create(prev.store, tableName, item) :
                  prev \in {before}} : TRUE

\* the turns lo..hi of data.forEach(item => table.create(item)), in order
RECURSIVE forEachTurns(_, _, _, _, _)
forEachTurns(before, tableName, data, lo, hi) ==
  IF lo > hi THEN before
  ELSE IF lo = hi THEN forEachTurn(before, tableName, data[lo])
  ELSE CHOOSE r \in {forEachTurns(half, tableName, data, (lo + hi) \div 2 + 1, hi) :
                       half \in {forEachTurns(before, tableName, data, lo, (lo + hi) \div 2)}} : TRUE

\* data.forEach(item => table.create(item)), entered unless an earlier loop threw
forEachCreate(before, tableName, data) ==
  forEachTurns(before, tableName, data, 1, Len(data))

\* loadInitialData returns nothing; an Error of a create leaves it
completed(r) == IF r.outcome # "ok" THEN r ELSE Return(r.store, Undefined)

\* loadInitialData as it would be if the battery packs were entered before the cell models
loadInitialDataOver_packsFirst(ls) ==
  completed(
    forEachCreate(
      forEachCreate(
        forEachCreate(
          forEachCreate(Return(ls, Undefined), TABLES.batteryPacks, batteryPacksData),
          TABLES.cellModels, cellModelsData),
        TABLES.cars, carsData),
      TABLES.carBatteryPacks, relations))

loadInitialDataOver(ls) ==
  completed(
    forEachCreate(
      forEachCreate(
        forEachCreate(
          forEachCreate(Return(ls, Undefined), TABLES.cellModels, cellModelsData),
          TABLES.cars, carsData),
        TABLES.batteryPacks, batteryPacksData),
      TABLES.carBatteryPacks, relations))

\* the outcome over a fresh medium does not depend on the state: it is computed once
SeedOfFreshMedium == loadInitialDataOver([k \in {} |-> << >>])

loadInitialData(ls) ==
  IF DOMAIN ls = {} THEN SeedOfFreshMedium ELSE loadInitialDataOver(ls)

initDB(ls) ==
  IF ~hasItem(ls, TABLES.cellModels) THEN loadInitialData(ls)
  ELSE Return(ls, Undefined)

\* the clearing as it would be if it removed only the key that initDB tests
removeItems_onlyCellModels(ls, keys) == [k \in (DOMAIN ls) \ {TABLES.cellModels} |-> ls[k]]

\* Object.values(TABLES).forEach(table => localStorage.removeItem(table))
removeItems(ls, keys) == [k \in (DOMAIN ls) \ keys |-> ls[k]]

\* reset as it would be if it did not remove the stored tables
reset_noClear(ls) == initDB(ls)

reset(ls) == initDB(removeItems(ls, TableNames))

\* a reload as it would be if initDB seeded whenever the cell model table is empty
reload_seedsWhenEmpty(ls) ==
  IF getTable(ls, TABLES.cellModels) = << >> THEN loadInitialData(ls) ELSE Return(ls, Undefined)

\* a reload of the page: the script runs again and calls initDB() over the medium as it is
reload(ls) == initDB(ls)

(***************************************************************************)
(* The media the page can be loaded over: a fresh browser profile, and     *)
(* media left by earlier sessions.                                         *)
(***************************************************************************)
FreshMedium == [k \in {} |-> << >>]

\* every record of the seed removed, relations first
EmptiedMedium == [k \in TableNames |-> << >>]

\* then two cell models, two cars, a pack of each cell model and one relation
\* (of the first car to the second pack) entered
SampleMedium ==
  LET s1 == cellModels_create(EmptiedMedium,
              [manufacturer |-> Str("Panasonic"), model |-> Str("NCR18650B"),
               chemistry |-> Str("Li-ION"), nominalVoltage |-> Dec(3, "6"),
               nominalCapacityMah |-> Num(3350)]).store
      s2 == cellModels_create(s1, [manufacturer |-> Str("LG"), model |-> Str("E63")]).store
      s3 == cars_create(s2, [brand |-> Str("Tesla"), model |-> Str("Model 3")]).store
      s4 == cars_create(s3, [brand |-> Str("BMW"), model |-> Str("i3")]).store
      s5 == batteryPacks_create(s4, [name |-> Str("Pack A"), cellModelId |-> Num(1)]).store
      s6 == batteryPacks_create(s5, [name |-> Str("Pack B"), cellModelId |-> Num(2)]).store
  IN carBatteryPacks_create(s6, [carId |-> Num(1), batteryPackId |-> Num(2)]).store

Media == {FreshMedium, EmptiedMedium, SampleMedium}

(***************************************************************************)
(* Bounds and inputs                                                       *)
(***************************************************************************)
\* successful writes explored in a session loaded over a medium of an earlier session
MaxWrites == 2

\* successful writes explored after the built-in dataset was loaded
MaxSeedWrites == 1

MaxId == 2

IdInputs == {Num(i) : i \in 1..MaxId}

\* the id argument of remove: an identifier, or the null of a caller that holds none
RemoveIds == IdInputs \cup {Null}

FKInputs == {Undefined, Null} \cup IdInputs

CellInputs ==
  { [manufacturer |-> Str("Panasonic"), model |-> Str("NCR18650B"), chemistry |-> Str("Li-ION"),
     nominalVoltage |-> Dec(3, "6"), nominalCapacityMah |-> Num(3350)],
    [manufacturer |-> Str("LG"), nominalCapacityMah |-> Num(0)] }

CellUpdates == { [nominalCapacityMah |-> Num(0)], EmptyObject }

CarInputs ==
  { [brand |-> Str("Tesla"), model |-> Str("Model Y"), yearStart |-> Num(2024)],
    [brand |-> Str("BMW"), trim |-> Str(""), yearEnd |-> Num(0)] }

CarUpdates == { [yearEnd |-> Num(2024)] }

PackInputs == { [name |-> Str("Pack"), totalCapacityKwh |-> Num(0), cellModelId |-> fk] : fk \in FKInputs }

PackUpdates == { [cellModelId |-> fk] : fk \in FKInputs \ {Undefined} } \cup { [name |-> Str("")] }

RelInputs ==
  { [carId |-> fk, batteryPackId |-> Num(1)] : fk \in FKInputs \ {Undefined} }
    \cup { [carId |-> Num(1), batteryPackId |-> fk] : fk \in FKInputs \ {Undefined} }
    \cup { EmptyObject }

RelUpdates ==
  { [carId |-> fk] : fk \in FKInputs \ {Undefined} }
    \cup { [batteryPackId |-> fk] : fk \in FKInputs \ {Undefined} }

(***************************************************************************)
(* State                                                                   *)
(***************************************************************************)
\* localStorage: the medium; last: the call whose outcome the caller holds;
\* budget: the successful writes still explored; retired: per table, the
\* identifiers of the records removed since the tables were last loaded
VARIABLES localStorage, last, budget, retired, callers

vars == << localStorage, last, budget, retired, callers >>

\* no call is in progress: the caller has consumed the outcome of the last one
NoCall ==
  [op |-> "none", table |-> "", id |-> Undefined, data |-> EmptyObject,
   outcome |-> "ok", ret |-> << >>, before |-> FreshMedium]

\* the callers that share the medium, each at a step of a create of its own
Callers == {1, 2}

\* no caller is inside a create
NoCallers ==
  [c \in Callers |->
     [pc |-> "idle", table |-> "", data |-> EmptyObject, items |-> << >>,
      newItem |-> EmptyObject, early |-> FALSE]]

\* one call of the public API: its arguments, its outcome and the medium before it
Call(op, tableName, id, data, r) ==
  /\ last = NoCall
  /\ UNCHANGED callers
  /\ (r.outcome = "ok") => (budget > 0)
  /\ localStorage' = r.store
  /\ last' = [op |-> op, table |-> tableName, id |-> id, data |-> data,
              outcome |-> r.outcome, ret |-> r.ret, before |-> localStorage]
  /\ budget' = IF r.outcome = "ok" THEN budget - 1 ELSE budget
  /\ retired' = IF op = "remove" /\ r.outcome = "ok"
                THEN [retired EXCEPT ![tableName] = @ \cup {id}]
                ELSE retired

Init ==
  /\ \E medium \in Media :
       /\ localStorage = initDB(medium).store
       /\ budget = IF hasItem(medium, TABLES.cellModels) THEN MaxWrites ELSE MaxSeedWrites
  /\ last = NoCall
  /\ retired = [t \in TableNames |-> {}]
  /\ callers = NoCallers

cellModelsCreate ==
  \E data \in CellInputs :
    Call("create", TABLES.cellModels, Undefined, data, cellModels_create(localStorage, data))

cellModelsUpdate ==
  \E id \in IdInputs, data \in CellUpdates :
    Call("update", TABLES.cellModels, id, data, cellModels_update(localStorage, id, data))

cellModelsRemove ==
  \E id \in RemoveIds :
    Call("remove", TABLES.cellModels, id, EmptyObject, cellModels_remove(localStorage, id))

batteryPacksCreate ==
  \E data \in PackInputs :
    Call("create", TABLES.batteryPacks, Undefined, data, batteryPacks_create(localStorage, data))

batteryPacksUpdate ==
  \E id \in IdInputs, data \in PackUpdates :
    Call("update", TABLES.batteryPacks, id, data, batteryPacks_update(localStorage, id, data))

batteryPacksRemove ==
  \E id \in RemoveIds :
    Call("remove", TABLES.batteryPacks, id, EmptyObject, batteryPacks_remove(localStorage, id))

carsCreate ==
  \E data \in CarInputs :
    Call("create", TABLES.cars, Undefined, data, cars_create(localStorage, data))

carsUpdate ==
  \E id \in IdInputs, data \in CarUpdates :
    Call("update", TABLES.cars, id, data, cars_update(localStorage, id, data))

carsRemove ==
  \E id \in RemoveIds :
    Call("remove", TABLES.cars, id, EmptyObject, cars_remove(localStorage, id))

carBatteryPacksCreate ==
  \E data \in RelInputs :
    Call("create", TABLES.carBatteryPacks, Undefined, data, carBatteryPacks_create(localStorage, data))

carBatteryPacksUpdate ==
  \E id \in IdInputs, data \in RelUpdates :
    Call("update", TABLES.carBatteryPacks, id, data, carBatteryPacks_update(localStorage, id, data))

carBatteryPacksRemove ==
  \E id \in RemoveIds :
    Call("remove", TABLES.carBatteryPacks, id, EmptyObject, carBatteryPacks_remove(localStorage, id))

\* reset(): not counted against the budget; the writes explored after it are
Reseeded(r) ==
  /\ last = NoCall
  /\ UNCHANGED callers
  /\ localStorage' = r.store
  /\ last' = [op |-> "reset", table |-> "", id |-> Undefined, data |-> EmptyObject,
              outcome |-> r.outcome, ret |-> r.ret, before |-> localStorage]
  /\ budget' = MaxSeedWrites
  /\ retired' = [t \in TableNames |-> {}]

Reset == Reseeded(reset(localStorage))

\* the caller consumes the outcome (re-renders, or alerts the message) and is ready to call again
Returned ==
  /\ last # NoCall
  /\ UNCHANGED callers
  /\ last' = NoCall
  /\ UNCHANGED << localStorage, budget, retired >>

\* a call that is not a write of the caller: it is explored whatever the budget
Read(op, tableName, id, r) ==
  /\ last = NoCall
  /\ UNCHANGED callers
  /\ localStorage' = r.store
  /\ last' = [op |-> op, table |-> tableName, id |-> id, data |-> EmptyObject,
              outcome |-> r.outcome, ret |-> r.ret, before |-> localStorage]
  /\ UNCHANGED << budget, retired >>

List ==
  \E tableName \in TableNames :
    Read("list", tableName, Undefined, listCall(localStorage, tableName))

Get ==
  \E tableName \in TableNames, id \in IdInputs :
    Read("get", tableName, id, getCall(localStorage, tableName, id))

Export == Read("export", "", Undefined, export(localStorage))

Reload == Read("reload", "", Undefined, reload(localStorage))

Next ==
  \/ cellModelsCreate \/ cellModelsUpdate \/ cellModelsRemove
  \/ batteryPacksCreate \/ batteryPacksUpdate \/ batteryPacksRemove
  \/ carsCreate \/ carsUpdate \/ carsRemove
  \/ carBatteryPacksCreate \/ carBatteryPacksUpdate \/ carBatteryPacksRemove
  \/ Reset \/ Returned

Spec == Init /\ [][Next]_vars

\* The reads and the reload, explored over the media that a few writes leave.
\* successful writes explored before a read
MaxReadWrites == 1

InitReads ==
  /\ \E medium \in Media : localStorage = initDB(medium).store
  /\ budget = MaxReadWrites
  /\ last = NoCall
  /\ retired = [t \in TableNames |-> {}]
  /\ callers = NoCallers

NextReads ==
  \/ cellModelsCreate \/ cellModelsUpdate \/ cellModelsRemove
  \/ batteryPacksCreate \/ batteryPacksUpdate \/ batteryPacksRemove
  \/ carsCreate \/ carsUpdate \/ carsRemove
  \/ carBatteryPacksCreate \/ carBatteryPacksUpdate \/ carBatteryPacksRemove
  \/ List \/ Get \/ Export \/ Reload \/ Returned

ReadSpec == InitReads /\ [][NextReads]_vars

(***************************************************************************)
(* The delete handlers of the presentation layer                           *)
(***************************************************************************)
\* what a handler did: whether the user confirmed, whether remove was called,
\* and the alerts shown ('Error: ' followed by the message of the Error)
Handled(ls, answer, called, alerts) ==
  [store |-> ls, outcome |-> "ok",
   ret |-> << [confirmed |-> answer, called |-> called, alerts |-> alerts] >>]

\* a delete handler as it would be without its try/catch: the Error leaves the handler
deleteHandler_noCatch(ls, tableName, id, answer) ==
  IF ~answer THEN Handled(ls, answer, FALSE, << >>)
  ELSE LET r == remove(ls, tableName, id)
       IN IF r.outcome = "ok" THEN Handled(r.store, answer, TRUE, << >>)
          ELSE [store |-> r.store, outcome |-> r.outcome,
                ret |-> << [confirmed |-> answer, called |-> TRUE, alerts |-> << >>] >>]

\* if (confirm(...)) { try { DB.<table>.remove(id); ... } catch (error) { alert(...) } }
deleteHandler(ls, tableName, id, answer) ==
  IF ~answer THEN Handled(ls, answer, FALSE, << >>)
  ELSE LET r == remove(ls, tableName, id)
       IN IF r.outcome = "ok" THEN Handled(r.store, answer, TRUE, << >>)
          ELSE Handled(r.store, answer, TRUE,
                       << [prefix |-> "Error: ", message |-> r.outcome] >>)

\* one click on a Delete button and the answer to its confirmation; a removal
\* that succeeds is a write of the budget
Delete(tableName, id, r) ==
  /\ last = NoCall
  /\ UNCHANGED callers
  /\ (r.store # localStorage) => (budget > 0)
  /\ localStorage' = r.store
  /\ last' = [op |-> "delete", table |-> tableName, id |-> id, data |-> EmptyObject,
              outcome |-> r.outcome, ret |-> r.ret, before |-> localStorage]
  /\ budget' = IF r.store # localStorage THEN budget - 1 ELSE budget
  /\ retired' = IF r.store # localStorage
                THEN [retired EXCEPT ![tableName] = @ \cup {id}]
                ELSE retired

deleteCellModel ==
  \E id \in IdInputs, answer \in BOOLEAN :
    Delete(TABLES.cellModels, id, deleteHandler(localStorage, TABLES.cellModels, id, answer))

deleteBatteryPack ==
  \E id \in IdInputs, answer \in BOOLEAN :
    Delete(TABLES.batteryPacks, id, deleteHandler(localStorage, TABLES.batteryPacks, id, answer))

deleteCar ==
  \E id \in IdInputs, answer \in BOOLEAN :
    Delete(TABLES.cars, id, deleteHandler(localStorage, TABLES.cars, id, answer))

deleteRelation ==
  \E id \in IdInputs, answer \in BOOLEAN :
    Delete(TABLES.carBatteryPacks, id, deleteHandler(localStorage, TABLES.carBatteryPacks, id, answer))

NextHandlers ==
  \/ deleteCellModel \/ deleteBatteryPack \/ deleteCar \/ deleteRelation
  \/ Returned

HandlerSpec == Init /\ [][NextHandlers]_vars

(***************************************************************************)
(* Two callers that share the medium (two pages of the same origin), each  *)
(* inside a create.  A create reads the medium twice and writes it once:   *)
(* this.list(), getNextId(), saveTable(); nothing orders the reads and     *)
(* writes of one caller with those of the other.                           *)
(***************************************************************************)
\* the tables whose create validates no foreign key before it reads its table
RaceTables == {TABLES.cellModels, TABLES.cars}

InputsOf(tableName) == IF tableName = TABLES.cellModels THEN CellInputs ELSE CarInputs

\* the write as it would be if the table were read again under a lock when it is saved
pushAndSave_reread(ls, tableName, items, newItem) ==
  saveTable(ls, tableName, Append(getTable(ls, tableName), newItem))

\* items.push(newItem); saveTable(table, items)
pushAndSave(ls, tableName, items, newItem) ==
  saveTable(ls, tableName, Append(items, newItem))

\* no other caller has written yet
NoneSaved(c) == \A d \in Callers \ {c} : callers[d].pc # "done"

\* const items = this.list()
RaceList(c) ==
  /\ callers[c].pc = "idle"
  /\ \E tableName \in RaceTables : \E data \in InputsOf(tableName) :
       callers' = [callers EXCEPT ![c] =
                     [pc |-> "listed", table |-> tableName, data |-> data,
                      items |-> list(localStorage, tableName), newItem |-> EmptyObject,
                      early |-> NoneSaved(c)]]
  /\ UNCHANGED << localStorage, last, budget, retired >>

\* const newItem = { id: getNextId(table), ... }: the record that create builds
\* over the medium as it is now
RaceNextId(c) ==
  /\ callers[c].pc = "listed"
  /\ callers' = [callers EXCEPT ![c].pc = "built",
                                ![c].newItem = create(localStorage, callers[c].table,
                                                      callers[c].data).ret[1],
                                ![c].early = callers[c].early /\ NoneSaved(c)]
  /\ UNCHANGED << localStorage, last, budget, retired >>

\* items.push(newItem); saveTable(table, items); return newItem
RaceSave(c) ==
  /\ callers[c].pc = "built"
  /\ localStorage' = pushAndSave(localStorage, callers[c].table, callers[c].items,
                                 callers[c].newItem)
  /\ callers' = [callers EXCEPT ![c].pc = "done"]
  /\ UNCHANGED << last, budget, retired >>

InitRace ==
  /\ \E medium \in Media : localStorage = initDB(medium).store
  /\ last = NoCall
  /\ budget = 0
  /\ retired = [t \in TableNames |-> {}]
  /\ callers = NoCallers

NextRace == \E c \in Callers : RaceList(c) \/ RaceNextId(c) \/ RaceSave(c)

RaceSpec == InitRace /\ [][NextRace]_vars

(***************************************************************************)
(* Properties                                                              *)
(***************************************************************************)
\* the identifiers held by a table of a medium
IdsOf(ls, tableName) ==
  LET items == getTable(ls, tableName)
  IN {Prop(items[i], "id") : i \in 1..Len(items)}

\* a foreign-key value that is null or absent
IsNullFK(v) == v = Null \/ v = Undefined

\* the values of property f over the records of a table
ValuesOf(ls, tableName, f) ==
  LET items == getTable(ls, tableName)
  IN {Prop(items[i], f) : i \in 1..Len(items)}

Succeeded(op, tableName) ==
  last.op = op /\ last.table = tableName /\ last.outcome = "ok"

ValidationErrors ==
  {"Invalid cellModelId: cell model does not exist",
   "Invalid carId: car does not exist",
   "Invalid batteryPackId: battery pack does not exist"}

ConflictErrors ==
  {"Cannot delete cell model: it is referenced by battery packs",
   "Cannot delete battery pack: it is referenced by car-battery relations",
   "Cannot delete car: it is referenced by car-battery relations"}

NotFoundErrors ==
  {"Cell model not found", "Battery pack not found", "Car not found", "Relation not found"}

\* C1: in every reachable state every non-null cellModelId of a battery pack is
\* the id of a current cell model, and every non-null carId / batteryPackId of
\* a relation is the id of a current car / battery pack.
C1_ReferentialIntegrity ==
  LET cellIds == IdsOf(localStorage, TABLES.cellModels) \cup {Null, Undefined}
      carIds == IdsOf(localStorage, TABLES.cars) \cup {Null, Undefined}
      packIds == IdsOf(localStorage, TABLES.batteryPacks) \cup {Null, Undefined}
  IN /\ ValuesOf(localStorage, TABLES.batteryPacks, "cellModelId") \subseteq cellIds
     /\ ValuesOf(localStorage, TABLES.carBatteryPacks, "carId") \subseteq carIds
     /\ ValuesOf(localStorage, TABLES.carBatteryPacks, "batteryPackId") \subseteq packIds

\* a write has just been refused or made while a pack names a cell model and a
\* relation names a car and a pack
C1_Witness ==
  /\ last.op \in {"create", "update", "remove"}
  /\ \E fk \in ValuesOf(localStorage, TABLES.batteryPacks, "cellModelId") : ~IsNullFK(fk)
  /\ \E fk \in ValuesOf(localStorage, TABLES.carBatteryPacks, "carId") : ~IsNullFK(fk)
  /\ \E fk \in ValuesOf(localStorage, TABLES.carBatteryPacks, "batteryPackId") : ~IsNullFK(fk)
  /\ localStorage # last.before

\* C2: batteryPacks.create with a non-null cellModelId that is no current cell
\* model id, and carBatteryPacks.create with a non-null carId or batteryPackId
\* that is no current car / pack id, throws a validation error and appends nothing.
C2_CreateRejectsUnresolvedFK ==
  /\ ( /\ last.op = "create" /\ last.table = TABLES.batteryPacks
       /\ ~IsNullFK(Prop(last.data, "cellModelId"))
       /\ Prop(last.data, "cellModelId") \notin IdsOf(last.before, TABLES.cellModels) )
     => ( /\ last.outcome = "Invalid cellModelId: cell model does not exist"
          /\ localStorage = last.before )
  /\ ( /\ last.op = "create" /\ last.table = TABLES.carBatteryPacks
       /\ \/ /\ ~IsNullFK(Prop(last.data, "carId"))
             /\ Prop(last.data, "carId") \notin IdsOf(last.before, TABLES.cars)
          \/ /\ ~IsNullFK(Prop(last.data, "batteryPackId"))
             /\ Prop(last.data, "batteryPackId") \notin IdsOf(last.before, TABLES.batteryPacks) )
     => ( /\ last.outcome \in {"Invalid carId: car does not exist",
                               "Invalid batteryPackId: battery pack does not exist"}
          /\ localStorage = last.before )

\* a relation was refused for its batteryPackId although its carId resolves
C2_Witness ==
  /\ last.op = "create" /\ last.table = TABLES.carBatteryPacks
  /\ Prop(last.data, "carId") \in IdsOf(last.before, TABLES.cars)
  /\ last.outcome = "Invalid batteryPackId: battery pack does not exist"

\* C3: in every reachable state batteryPacks.create with cellModelId null or
\* omitted succeeds and the record it stores has cellModelId = null.
C3_NullFKAlwaysValid ==
  \A data \in {d \in PackInputs : IsNullFK(Prop(d, "cellModelId"))} :
    LET r == batteryPacks_create(localStorage, data)
    IN /\ r.outcome = "ok"
       /\ r.ret[1].cellModelId = Null
       /\ batteryPacks_get(r.store, r.ret[1].id) = << r.ret[1] >>

\* a pack without cell model has been created while cellModels was empty
C3_Witness ==
  /\ Succeeded("create", TABLES.batteryPacks)
  /\ Prop(last.data, "cellModelId") = Undefined
  /\ getTable(last.before, TABLES.cellModels) = << >>
  /\ hasItem(last.before, TABLES.cellModels)
  /\ Prop(batteryPacks_get(localStorage, last.ret[1].id)[1], "cellModelId") = Null

\* C4: remove(id) throws the conflict error and leaves every table unchanged
\* whenever a record of the guarding table references id.
C4_DeleteGuard ==
  /\ ( /\ last.op = "remove" /\ last.table = TABLES.cellModels
       /\ last.id \in ValuesOf(last.before, TABLES.batteryPacks, "cellModelId") )
     => ( /\ last.outcome = "Cannot delete cell model: it is referenced by battery packs"
          /\ localStorage = last.before )
  /\ ( /\ last.op = "remove" /\ last.table = TABLES.batteryPacks
       /\ last.id \in ValuesOf(last.before, TABLES.carBatteryPacks, "batteryPackId") )
     => ( /\ last.outcome = "Cannot delete battery pack: it is referenced by car-battery relations"
          /\ localStorage = last.before )
  /\ ( /\ last.op = "remove" /\ last.table = TABLES.cars
       /\ last.id \in ValuesOf(last.before, TABLES.carBatteryPacks, "carId") )
     => ( /\ last.outcome = "Cannot delete car: it is referenced by car-battery relations"
          /\ localStorage = last.before )

\* the removal of a referenced car has been refused
C4_Witness ==
  /\ last.op = "remove" /\ last.table = TABLES.cars
  /\ last.id \in IdsOf(last.before, TABLES.cars)
  /\ last.id \in ValuesOf(last.before, TABLES.carBatteryPacks, "carId")
  /\ last.outcome \in ConflictErrors

\* the table whose records guard the removal from tableName, and the column that refers to it
GuardOf(tableName) ==
  CASE tableName = TABLES.cellModels -> << TABLES.batteryPacks, "cellModelId" >>
    [] tableName = TABLES.batteryPacks -> << TABLES.carBatteryPacks, "batteryPackId" >>
    [] tableName = TABLES.cars -> << TABLES.carBatteryPacks, "carId" >>

IsReferenced(ls, tableName, id) ==
  /\ tableName # TABLES.carBatteryPacks
  /\ id \in ValuesOf(ls, GuardOf(tableName)[1], GuardOf(tableName)[2])

\* the packs of a medium that name cell model id
PacksOf(ls, id) ==
  LET packs == getTable(ls, TABLES.batteryPacks)
  IN {i \in 1..Len(packs) : Prop(packs[i], "cellModelId") = id}

\* the cell model named by the pack that the last call removed
ReleasedCell == Prop(batteryPacks_get(last.before, last.id)[1], "cellModelId")

\* the last call removed the only pack that named a cell model
C5_Released ==
  /\ Succeeded("remove", TABLES.batteryPacks)
  /\ ~IsNullFK(ReleasedCell)
  /\ Cardinality(PacksOf(last.before, ReleasedCell)) = 1

\* C5: while a battery pack names a cell model, cellModels.remove of it throws
\* the conflict error; once batteryPacks.remove of the (only) pack naming it has
\* succeeded, the same cellModels.remove call succeeds and the cell model is gone.
C5_DeleteGuardRelease ==
  C5_Released =>
    /\ cellModels_remove(last.before, ReleasedCell).outcome
         = "Cannot delete cell model: it is referenced by battery packs"
    /\ cellModels_remove(localStorage, ReleasedCell).outcome = "ok"
    /\ cellModels_get(cellModels_remove(localStorage, ReleasedCell).store, ReleasedCell) = << >>

\* the only pack of a cell model has been removed
C5_Witness ==
  /\ C5_Released
  /\ cellModels_get(localStorage, ReleasedCell) # << >>

\* C6: in every reachable state remove(id) of a record that is in its table
\* and that no record of the guarding table references succeeds and removes it;
\* carBatteryPacks has no guard, so removing an existing relation always succeeds.
C6_RemoveUnconditional ==
  \A tableName \in TableNames : \A id \in IdsOf(localStorage, tableName) \cap IdInputs :
    ~IsReferenced(localStorage, tableName, id)
      => LET r == remove(localStorage, tableName, id)
         IN r.outcome = "ok" /\ id \notin IdsOf(r.store, tableName)

\* a relation has been removed, and a car that no relation names is still removable
C6_Witness ==
  /\ Succeeded("remove", TABLES.carBatteryPacks)
  /\ last.id \in IdsOf(last.before, TABLES.carBatteryPacks)
  /\ \E id \in IdsOf(localStorage, TABLES.cars) :
       /\ ~IsReferenced(localStorage, TABLES.cars, id)
       /\ id \in ValuesOf(localStorage, TABLES.carBatteryPacks, "batteryPackId")

\* C7: in every reachable state no table holds two records with the same id,
\* and every id is an integer >= 1.
C7_UniqueIds ==
  \A tableName \in TableNames :
    LET ids == IdsOf(localStorage, tableName)
    IN /\ Cardinality(ids) = Len(getTable(localStorage, tableName))
       /\ \A id \in ids : id.t = "number" /\ id.s = "" /\ id.n >= 1

\* a record has been created in a table from which a record had been removed
C7_Witness ==
  /\ last.op = "create" /\ last.outcome = "ok"
  /\ retired[last.table] # {}
  /\ Len(getTable(localStorage, last.table)) >= 2

\* the largest id number of a table, 0 for an empty table
LargestId(ls, tableName) ==
  LET numbers == {v.n : v \in IdsOf(ls, tableName)} \cup {0}
  IN CHOOSE m \in numbers : \A x \in numbers : x <= m

\* C8: a successful create returns a record whose id is
\* max(ids in the table before the call, with 0) + 1, i.e. 1 for an empty table.
C8_NextIdIsMaxPlusOne ==
  (last.op = "create" /\ last.outcome = "ok")
    => last.ret[1].id = Num(LargestId(last.before, last.table) + 1)

\* a record has been created in a table whose ids were not 1..n
C8_Witness ==
  /\ last.op = "create" /\ last.outcome = "ok"
  /\ getTable(last.before, last.table) # << >>
  /\ LargestId(last.before, last.table) > Len(getTable(last.before, last.table))
  /\ last.ret[1].id = Num(LargestId(last.before, last.table) + 1)

\* C9: create returns an id that was assigned to a since-removed record of the
\* table only if the table was empty at the time of that create.
C9_ReuseOnlyWhenEmpty ==
  (last.op = "create" /\ last.outcome = "ok" /\ last.ret[1].id \in retired[last.table])
    => getTable(last.before, last.table) = << >>

\* the defaults that create declares for the attributes of a table
DeclaredDefaults(tableName) ==
  CASE tableName = TABLES.cellModels ->
         [manufacturer |-> Str(""), model |-> Str(""), chemistry |-> Str(""),
          nominalVoltage |-> Null, nominalCapacityMah |-> Null]
    [] tableName = TABLES.batteryPacks ->
         [name |-> Str(""), totalCapacityKwh |-> Null, seriesCount |-> Null,
          parallelCount |-> Null, cellCount |-> Null, cellModelId |-> Null]
    [] tableName = TABLES.cars ->
         [brand |-> Str(""), model |-> Str(""), trim |-> Null, yearStart |-> Null,
          yearEnd |-> Null]
    [] tableName = TABLES.carBatteryPacks -> EmptyObject

\* the fields an input object supplies
SuppliedFields(data) == JSONstringifyObject(data)

\* C10: after a successful create(x), get(returned.id) yields the declared
\* defaults overlaid with the fields supplied in x, plus the assigned id, for
\* all supplied values including falsy ones such as 0.
C10_CreateGetRoundTrip ==
  (last.op = "create" /\ last.outcome = "ok")
    => get(localStorage, last.table, last.ret[1].id)
         = << ("id" :> last.ret[1].id) @@ SuppliedFields(last.data) @@ DeclaredDefaults(last.table) >>

\* the attributes a table declares besides id
Attributes(tableName) ==
  CASE tableName = TABLES.cellModels ->
         {"manufacturer", "model", "chemistry", "nominalVoltage", "nominalCapacityMah"}
    [] tableName = TABLES.batteryPacks ->
         {"name", "totalCapacityKwh", "seriesCount", "parallelCount", "cellCount", "cellModelId"}
    [] tableName = TABLES.cars -> {"brand", "model", "trim", "yearStart", "yearEnd"}
    [] tableName = TABLES.carBatteryPacks -> {"carId", "batteryPackId"}

\* the text attributes whose default is the empty string; trim is optional
\* text whose default is null
TextAttributes == {"manufacturer", "model", "chemistry", "name", "brand"}

\* C11: after a successful create the persisted record carries every declared
\* attribute of its table, and every attribute omitted from the input holds
\* the empty string (text) or null (numeric, foreign key), carId and
\* batteryPackId of carBatteryPacks included.
C11_DefaultsOnCreate ==
  (last.op = "create" /\ last.outcome = "ok")
    => LET stored == get(localStorage, last.table, last.ret[1].id)
       IN /\ stored # << >>
          /\ \A f \in Attributes(last.table) :
               /\ f \in DOMAIN stored[1]
               /\ Prop(last.data, f) = Undefined
                    => stored[1][f] = IF f \in TextAttributes THEN Str("") ELSE Null

\* the position of the record that the last call named, in the table before the call
IndexBefore == findIndex(getTable(last.before, last.table), last.id)

\* C12: a successful update(id, data) changes, in the record with that id, the
\* attributes data supplies (to the supplied values) and nothing else: the
\* id, the other attributes, the position of the record, the other records
\* of the table and the other tables are as before; with no field supplied
\* nothing changes.
C12_PartialUpdate ==
  (last.op = "update" /\ last.outcome = "ok")
    => LET old == getTable(last.before, last.table)
           new == getTable(localStorage, last.table)
           given == DOMAIN SuppliedFields(last.data) \cap Attributes(last.table)
       IN /\ Len(new) = Len(old)
          /\ IndexBefore # 0
          /\ \A i \in 1..Len(old) : i # IndexBefore => new[i] = old[i]
          /\ \A f \in DOMAIN old[IndexBefore] \cup DOMAIN new[IndexBefore] :
               Prop(new[IndexBefore], f)
                 = IF f \in given THEN last.data[f] ELSE Prop(old[IndexBefore], f)
          /\ (given = {}) => localStorage = last.before
          /\ \A other \in TableNames \ {last.table} :
               getTable(localStorage, other) = getTable(last.before, other)

\* one supplied attribute of one of several records has been given a new value
C12_Witness ==
  /\ last.op = "update" /\ last.outcome = "ok"
  /\ Cardinality(DOMAIN SuppliedFields(last.data)) = 1
  /\ Len(getTable(last.before, last.table)) >= 2
  /\ localStorage # last.before

\* C13: update(id, data) on an id that is not in the table throws a not-found
\* error, whatever data holds (an unresolved foreign key included), and
\* leaves every table unchanged.
C13_UpdateMissingIsNotFound ==
  (last.op = "update" /\ last.id \notin IdsOf(last.before, last.table))
    => /\ last.outcome \in NotFoundErrors
       /\ localStorage = last.before

\* the foreign-key attributes of a table, each with the table it refers to
ForeignKeys(tableName) ==
  CASE tableName = TABLES.batteryPacks -> {<< "cellModelId", TABLES.cellModels >>}
    [] tableName = TABLES.carBatteryPacks ->
         {<< "carId", TABLES.cars >>, << "batteryPackId", TABLES.batteryPacks >>}
    [] OTHER -> {}

\* the foreign keys that the input of the last call supplies, non-null, without
\* a record of that id in the table referred to
UnresolvedSupplied ==
  {fk \in ForeignKeys(last.table) :
     /\ ~IsNullFK(Prop(last.data, fk[1]))
     /\ Prop(last.data, fk[1]) \notin IdsOf(last.before, fk[2])}

\* C14: update of an existing record throws a validation error and changes
\* nothing when a supplied non-null foreign key does not resolve; it succeeds
\* whenever every foreign key it supplies is null or resolves, whatever the
\* attributes it does not supply.
C14_UpdateValidatesSuppliedFK ==
  (last.op = "update" /\ last.id \in IdsOf(last.before, last.table))
    => IF UnresolvedSupplied # {}
       THEN last.outcome \in ValidationErrors /\ localStorage = last.before
       ELSE last.outcome = "ok"

\* the update of an existing relation to a car that is no longer there has been refused
C14_Witness ==
  /\ last.op = "update" /\ last.table = TABLES.carBatteryPacks
  /\ last.id \in IdsOf(last.before, last.table)
  /\ << "carId", TABLES.cars >> \in UnresolvedSupplied
  /\ last.outcome = "Invalid carId: car does not exist"

Without(items, index) == SubSeq(items, 1, index - 1) \o SubSeq(items, index + 1, Len(items))

\* C16: a successful remove(id) returns true and removes exactly the record
\* with that id: get(id) is absent afterwards, the table is one record
\* shorter, and the other records are unchanged and in the same order.
C16_RemoveExactlyOne ==
  (last.op = "remove" /\ last.outcome = "ok")
    => LET old == getTable(last.before, last.table)
           new == getTable(localStorage, last.table)
       IN /\ last.ret = << True >>
          /\ get(localStorage, last.table, last.id) = << >>
          /\ IndexBefore # 0
          /\ Len(new) = Len(old) - 1
          /\ new = Without(old, IndexBefore)

\* a record that was not the last of its table has been removed
C16_Witness ==
  /\ last.op = "remove" /\ last.outcome = "ok"
  /\ IndexBefore # 0
  /\ IndexBefore < Len(getTable(last.before, last.table))

\* C17: a create, update or remove call that throws (validation, not-found or
\* conflict error) leaves the persisted contents of all four tables as they
\* were before the call.
C17_NoPartialWrite ==
  (last.op \in {"create", "update", "remove"} /\ last.outcome # "ok")
    => /\ last.outcome \in ValidationErrors \cup NotFoundErrors \cup ConflictErrors
       /\ \A tableName \in TableNames :
            getTable(localStorage, tableName) = getTable(last.before, tableName)
       /\ DOMAIN localStorage = DOMAIN last.before

\* the creation of a relation has been refused at its second validation
C17_Witness ==
  /\ last.op = "create" /\ last.table = TABLES.carBatteryPacks
  /\ last.outcome = "Invalid batteryPackId: battery pack does not exist"
  /\ ~IsNullFK(Prop(last.data, "carId"))

\* C18: reset() leaves exactly the seed counts: 22 cell models, 28 cars,
\* 21 battery packs and 28 relations, whatever the calls before it.
C18_ResetRestoresSeedCounts ==
  (last.op = "reset")
    => /\ Len(getTable(localStorage, TABLES.cellModels)) = 22
       /\ Len(getTable(localStorage, TABLES.cars)) = 28
       /\ Len(getTable(localStorage, TABLES.batteryPacks)) = 21
       /\ Len(getTable(localStorage, TABLES.carBatteryPacks)) = 28

\* reset has been called over tables that held other records than the seed
C18_Witness ==
  /\ last.op = "reset"
  /\ hasItem(last.before, TABLES.cars)
  /\ Len(getTable(last.before, TABLES.cars)) \notin {0, 28}

\* the foreign keys of the built-in dataset are null or positions of the data
\* they refer to: the ids that the creates of that data are given
SeedKeysInRange ==
  /\ \A i \in 1..Len(batteryPacksData) :
       \/ IsNullFK(Prop(batteryPacksData[i], "cellModelId"))
       \/ Prop(batteryPacksData[i], "cellModelId") \in {Num(k) : k \in 1..Len(cellModelsData)}
  /\ \A i \in 1..Len(relations) :
       /\ Prop(relations[i], "carId") \in {Num(k) : k \in 1..Len(carsData)}
       /\ Prop(relations[i], "batteryPackId") \in {Num(k) : k \in 1..Len(batteryPacksData)}

\* the records of a table are the creates of data in order: the i-th has id i
\* and the attributes that data[i] supplies
EnteredInOrder(ls, tableName, data) ==
  LET items == getTable(ls, tableName)
  IN /\ Len(items) = Len(data)
     /\ \A i \in 1..Len(data) :
          /\ Prop(items[i], "id") = Num(i)
          /\ \A f \in DOMAIN data[i] : Prop(items[i], f) = data[i][f]

\* C19: seeding an empty medium enters the built-in dataset through create, in
\* the order cellModels, cars, batteryPacks, carBatteryPacks; every create
\* passes foreign-key validation (the keys of the data are within the ids
\* 1..22, 1..28 and 1..21 of the tables they refer to), so seeding completes
\* without an error.
C19_SeedingPassesValidation ==
  (last.op = "reset")
    => /\ last.outcome = "ok"
       /\ initDB(FreshMedium).outcome = "ok"
       /\ localStorage = initDB(FreshMedium).store
       /\ SeedKeysInRange
       /\ EnteredInOrder(localStorage, TABLES.cellModels, cellModelsData)
       /\ EnteredInOrder(localStorage, TABLES.cars, carsData)
       /\ EnteredInOrder(localStorage, TABLES.batteryPacks, batteryPacksData)
       /\ EnteredInOrder(localStorage, TABLES.carBatteryPacks, relations)

\* the dataset has been seeded, and its records name cell models, cars and packs
C19_Witness ==
  /\ last.op = "reset" /\ last.outcome = "ok"
  /\ \E fk \in ValuesOf(localStorage, TABLES.batteryPacks, "cellModelId") : ~IsNullFK(fk)
  /\ \A fk \in ValuesOf(localStorage, TABLES.carBatteryPacks, "batteryPackId") : ~IsNullFK(fk)
  /\ Len(getTable(localStorage, TABLES.carBatteryPacks)) = Len(relations)

\* the ids of the records of a table, in storage order
IdSeq(ls, tableName) ==
  LET items == getTable(ls, tableName)
  IN [i \in 1..Len(items) |-> Prop(items[i], "id")]

\* C20: list() returns the table in storage order, which is insertion order:
\* create appends the new record after the existing ones, update keeps every
\* record at its position, remove keeps the order of the remaining records.
C20_StorageOrder ==
  /\ \A tableName \in TableNames : list(localStorage, tableName) = getTable(localStorage, tableName)
  /\ (last.op = "create" /\ last.outcome = "ok")
       => /\ SubSeq(list(localStorage, last.table), 1, Len(list(last.before, last.table)))
               = list(last.before, last.table)
          /\ IdSeq(localStorage, last.table) = Append(IdSeq(last.before, last.table), last.ret[1].id)
  /\ (last.op = "update" /\ last.outcome = "ok")
       => IdSeq(localStorage, last.table) = IdSeq(last.before, last.table)
  /\ (last.op = "remove" /\ last.outcome = "ok")
       => IdSeq(localStorage, last.table)
            = SelectSeq(IdSeq(last.before, last.table), LAMBDA id : id # last.id)

\* a car has been created in a table that held two
C20_Witness ==
  /\ last.op = "create" /\ last.table = TABLES.cars /\ last.outcome = "ok"
  /\ Len(getTable(last.before, TABLES.cars)) >= 2
  /\ Len(getTable(localStorage, TABLES.cars)) = Len(getTable(last.before, TABLES.cars)) + 1

\* C21: list(), get() and export() are read-only and idempotent: a call leaves
\* every table as it was, and the same call repeated on the medium it leaves
\* returns an equal value.
C21_ReadsAreIdempotent ==
  /\ (last.op \in {"list", "get", "export"}) => localStorage = last.before
  /\ (last.op = "list") => listCall(localStorage, last.table).ret = last.ret
  /\ (last.op = "get") => getCall(localStorage, last.table, last.id).ret = last.ret
  /\ (last.op = "export") => export(localStorage).ret = last.ret

\* list() has returned a table of several records
C21_Witness ==
  /\ last.op = "list" /\ last.outcome = "ok"
  /\ Len(last.ret[1]) >= 2
  /\ last.ret[1] = getTable(localStorage, last.table)

\* C23: export() returns a snapshot that maps cellModels, batteryPacks, cars
\* and carBatteryPacks to what the list() of each returns in the same state,
\* and does not modify the store.
C23_ExportIsSnapshot ==
  (last.op = "export")
    => /\ last.outcome = "ok"
       /\ DOMAIN last.ret[1] = DOMAIN TABLES
       /\ \A k \in DOMAIN TABLES : last.ret[1][k] = list(last.before, TABLES[k])
       /\ \A tableName \in TableNames :
            getTable(localStorage, tableName) = getTable(last.before, tableName)

\* a store whose four tables hold records, no two tables alike, has been exported
C23_Witness ==
  /\ last.op = "export"
  /\ \A tableName \in TableNames : getTable(last.before, tableName) # << >>
  /\ \A s, t \in TableNames : s # t => getTable(last.before, s) # getTable(last.before, t)

\* C27: re-running the initialization (a page reload) over a medium that holds
\* the cellModels entry leaves all four tables unchanged, also when the stored
\* cellModels table is the empty list.
C27_ReloadKeepsStore ==
  (last.op = "reload" /\ hasItem(last.before, TABLES.cellModels))
    => /\ last.outcome = "ok"
       /\ localStorage = last.before

\* the page has been reloaded over a medium whose cell model table is the empty list
C27_Witness ==
  /\ last.op = "reload"
  /\ hasItem(last.before, TABLES.cellModels)
  /\ getTable(last.before, TABLES.cellModels) = << >>
  /\ getTable(localStorage, TABLES.cellModels) = << >>

\* the input of the car scenario
ScenarioCar == [brand |-> Str("Tesla"), model |-> Str("Model Y"), yearStart |-> Num(2024)]

\* the last call removed a car that the scenario input had created
ScenarioCarRemoved ==
  /\ last.op = "remove" /\ last.table = TABLES.cars /\ last.outcome = "ok"
  /\ \E car \in {c \in {cars_get(last.before, last.id)} : c # << >>} :
       /\ Prop(car[1], "brand") = ScenarioCar.brand
       /\ Prop(car[1], "model") = ScenarioCar.model
       /\ Prop(car[1], "yearStart") = ScenarioCar.yearStart

\* C22: cars.create({brand: "Tesla", model: "Model Y", yearStart: 2024}) followed
\* by cars.get(new.id) returns a record with trim = null and yearEnd = null;
\* cars.remove(new.id) then returns true and cars.get(new.id) returns none.
C22_CarScenario ==
  /\ (last.op = "create" /\ last.table = TABLES.cars /\ last.data = ScenarioCar)
       => /\ last.outcome = "ok"
          /\ cars_get(localStorage, last.ret[1].id)
               = << [id |-> last.ret[1].id, brand |-> Str("Tesla"), model |-> Str("Model Y"),
                     trim |-> Null, yearStart |-> Num(2024), yearEnd |-> Null] >>
          /\ cars_remove(localStorage, last.ret[1].id).outcome = "ok"
          /\ cars_remove(localStorage, last.ret[1].id).ret = << True >>
          /\ cars_get(cars_remove(localStorage, last.ret[1].id).store, last.ret[1].id) = << >>
  /\ ScenarioCarRemoved
       => /\ last.ret = << True >>
          /\ cars_get(localStorage, last.id) = << >>

\* the car of the scenario has been created, then removed
C22_Witness ==
  /\ ScenarioCarRemoved
  /\ Prop(cars_get(last.before, last.id)[1], "trim") = Null
  /\ Prop(cars_get(last.before, last.id)[1], "yearEnd") = Null

\* the attributes by which a record counts as a duplicate of another
KeyAttributes(tableName) ==
  CASE tableName = TABLES.cellModels -> {"manufacturer", "model"}
    [] tableName = TABLES.carBatteryPacks -> {"carId", "batteryPackId"}
    [] OTHER -> Attributes(tableName)

\* the records of a table of a medium that agree with an input on the key attributes
DuplicatesOf(ls, tableName, data) ==
  LET items == getTable(ls, tableName)
  IN {i \in 1..Len(items) :
        \A f \in KeyAttributes(tableName) : Prop(items[i], f) = Prop(data, f)}

\* C24: create never fails because an equal record already exists: when the
\* table holds a record with the (manufacturer, model) of the new cell model,
\* or the (carId, batteryPackId) of the new relation, create succeeds and both
\* records are in the table, each with its own id.
C24_DuplicatesPermitted ==
  (last.op = "create" /\ DuplicatesOf(last.before, last.table, last.data) # {})
    => /\ last.outcome = "ok"
       /\ Len(getTable(localStorage, last.table)) = Len(getTable(last.before, last.table)) + 1
       /\ last.ret[1].id \notin IdsOf(last.before, last.table)
       /\ Cardinality(DuplicatesOf(localStorage, last.table, last.data))
            > Cardinality(DuplicatesOf(last.before, last.table, last.data))

\* a second relation of the same car and pack has been created, next to two
\* cell models of the same manufacturer and model
C24_Witness ==
  /\ last.op = "create" /\ last.table = TABLES.carBatteryPacks /\ last.outcome = "ok"
  /\ ~IsNullFK(Prop(last.data, "carId")) /\ ~IsNullFK(Prop(last.data, "batteryPackId"))
  /\ Cardinality(DuplicatesOf(localStorage, last.table, last.data)) >= 2
  /\ \E cell \in CellInputs :
       Cardinality(DuplicatesOf(localStorage, TABLES.cellModels, cell)) >= 2

\* C28: reset() returns the store to the state of the first initialization:
\* each table holds the built-in records in their order with the ids 1..n and
\* their foreign keys, whatever the calls before it, and a second reset()
\* changes nothing further.
C28_ResetRestoresFirstState ==
  (last.op = "reset")
    => /\ localStorage = initDB(FreshMedium).store
       /\ \A tableName \in TableNames :
            IdSeq(localStorage, tableName)
              = [i \in 1..Len(getTable(localStorage, tableName)) |-> Num(i)]
       /\ ValuesOf(localStorage, TABLES.carBatteryPacks, "carId")
            = {Prop(relations[i], "carId") : i \in 1..Len(relations)}
       /\ reset(localStorage).store = localStorage

\* reset has been called twice in a row
C28_Witness ==
  /\ last.op = "reset"
  /\ last.before = initDB(FreshMedium).store
  /\ localStorage = last.before
  /\ Len(getTable(localStorage, TABLES.batteryPacks)) = Len(batteryPacksData)

\* C29: a successful create, update or remove on one table leaves the
\* persisted contents of the other three tables unchanged: the guard of
\* remove only reads the dependent table, and nothing cascades.
C29_CrossTableFrame ==
  (last.op \in {"create", "update", "remove"} /\ last.outcome = "ok")
    => \A other \in TableNames \ {last.table} :
         /\ hasItem(localStorage, other) = hasItem(last.before, other)
         /\ getTable(localStorage, other) = getTable(last.before, other)

\* a battery pack has been removed while cell models, cars and relations were stored
C29_Witness ==
  /\ last.op = "remove" /\ last.table = TABLES.batteryPacks /\ last.outcome = "ok"
  /\ \A other \in TableNames \ {last.table} : getTable(localStorage, other) # << >>
  /\ getTable(localStorage, last.table) # getTable(last.before, last.table)

\* the value of a foreign key of a relation is null or absent, or the id of a
\* record of the table it refers to
KeyNullOrResolved(ls, rel, f, tableName) ==
  \/ Prop(rel, f) \in {Null, Undefined}
  \/ \E i \in 1..Len(getTable(ls, tableName)) : Prop(getTable(ls, tableName)[i], "id") = Prop(rel, f)

\* C30 (as stated): in every reachable state each carBatteryPacks record has a
\* carId that is the id of an existing car and a batteryPackId that is the id
\* of an existing battery pack; neither is null or missing.
C30_EveryRowIsAssociation ==
  \A i \in 1..Len(getTable(localStorage, TABLES.carBatteryPacks)) :
    LET rel == getTable(localStorage, TABLES.carBatteryPacks)[i]
    IN /\ "carId" \in DOMAIN rel /\ "batteryPackId" \in DOMAIN rel
       /\ rel.carId \in IdsOf(localStorage, TABLES.cars)
       /\ rel.batteryPackId \in IdsOf(localStorage, TABLES.batteryPacks)

\* C30 (amended): in every reachable state each carBatteryPacks record has a
\* carId that is null, absent or the id of an existing car, and a
\* batteryPackId that is null, absent or the id of an existing battery pack,
\* whether the row was written by carBatteryPacks.create or by
\* carBatteryPacks.update; the row that a successful create or update returns
\* is of that kind in the medium the call leaves.
C30_RowKeysNullOrResolved ==
  /\ \A i \in 1..Len(getTable(localStorage, TABLES.carBatteryPacks)) :
       LET rel == getTable(localStorage, TABLES.carBatteryPacks)[i]
       IN /\ KeyNullOrResolved(localStorage, rel, "carId", TABLES.cars)
          /\ KeyNullOrResolved(localStorage, rel, "batteryPackId", TABLES.batteryPacks)
  /\ (last.op \in {"create", "update"} /\ last.table = TABLES.carBatteryPacks
        /\ last.outcome = "ok")
       => /\ KeyNullOrResolved(localStorage, last.ret[1], "carId", TABLES.cars)
          /\ KeyNullOrResolved(localStorage, last.ret[1], "batteryPackId", TABLES.batteryPacks)

\* a relation has been updated to name a car and a pack, next to a relation
\* that create wrote with a null key
C30_Witness ==
  /\ last.op = "update" /\ last.table = TABLES.carBatteryPacks /\ last.outcome = "ok"
  /\ Prop(last.ret[1], "carId") \in IdsOf(localStorage, TABLES.cars)
  /\ Prop(last.ret[1], "batteryPackId") \in IdsOf(localStorage, TABLES.batteryPacks)
  /\ \E i \in 1..Len(getTable(localStorage, TABLES.carBatteryPacks)) :
       Prop(getTable(localStorage, TABLES.carBatteryPacks)[i], "carId") = Null

\* C26: a delete handler calls remove only after the user confirmed; when
\* the confirmation is declined the store is unchanged; when remove throws,
\* the error is caught and shown as an alert, and no exception leaves the
\* handler.
C26_DeleteHandlers ==
  (last.op = "delete")
    => LET h == last.ret[1]
           r == remove(last.before, last.table, last.id)
       IN /\ last.outcome = "ok"
          /\ h.called = h.confirmed
          /\ ~h.confirmed => (localStorage = last.before /\ h.alerts = << >>)
          /\ h.confirmed => localStorage = r.store
          /\ (h.confirmed /\ r.outcome = "ok") => h.alerts = << >>
          /\ (h.confirmed /\ r.outcome # "ok")
               => /\ h.alerts = << [prefix |-> "Error: ", message |-> r.outcome] >>
                  /\ localStorage = last.before

\* a confirmed deletion has been refused by the guard of remove and shown as an alert
C26_Witness ==
  /\ last.op = "delete" /\ last.outcome = "ok"
  /\ last.ret[1].confirmed
  /\ Len(last.ret[1].alerts) = 1
  /\ last.ret[1].alerts[1].message \in ConflictErrors

\* both callers have returned from a create on the same table, and each made
\* both its reads before either wrote
BothReadFirst ==
  /\ \A c \in Callers : callers[c].pc = "done" /\ callers[c].early
  /\ callers[1].table = callers[2].table

\* C25: when two callers that share the medium interleave create on the same
\* table so that both read the table before either writes it, one insert is
\* lost: the table holds the records it held and only one of the two new
\* records, and both callers were handed the same id.  No lock prevents the
\* interleaving (the state is reached).
C25_LostInsert ==
  BothReadFirst
    => LET new == getTable(localStorage, callers[1].table)
           old == callers[1].items
       IN /\ callers[2].items = old
          /\ callers[1].newItem.id = callers[2].newItem.id
          /\ Len(new) = Len(old) + 1
          /\ SubSeq(new, 1, Len(old)) = old
          /\ new[Len(new)] \in {JSONstringifyObject(callers[c].newItem) : c \in Callers}
          /\ Cardinality({i \in 1..Len(new) : Prop(new[i], "id") = callers[1].newItem.id}) = 1

\* both callers have created a record of their own on a table that held records,
\* and the record of one of them is not in the table
C25_Witness ==
  /\ BothReadFirst
  /\ callers[1].items # << >>
  /\ callers[1].data # callers[2].data
  /\ \E c \in Callers :
       \A i \in 1..Len(getTable(localStorage, callers[c].table)) :
         getTable(localStorage, callers[c].table)[i] # JSONstringifyObject(callers[c].newItem)

=============================================================================
